---- MODULE Spec2Model ----
(***************************************************************************)
(* Model of src/main.py (class Plugin): the yt-dlp search session          *)
(* (search_yt / next_yt_result / _unload, one asyncio event loop, one      *)
(* asyncio.Lock) and the local music library lookup (local_match).         *)
(*                                                                         *)
(* Every action is one run of a coroutine between two points where it      *)
(* really suspends: a contended lock acquire, StreamReader.readline() on an *)
(* incomplete line, Process.communicate(), asyncio.wait_for() and           *)
(* create_subprocess_exec().  The external process and the event loop's    *)
(* pipe / child-watcher callbacks are the environment actions.             *)
(***************************************************************************)
EXTENDS Integers, Sequences, FiniteSets, TLC

\* ------------------------------------------------------------------ bounds
\* calls of search_yt, next_yt_result and _unload together / lines written by
\* all processes together, for each specification
MaxCalls     == 3    \* Spec: all operations, concurrent callers
MaxLines     == 1
MaxRaceCalls == 4    \* SpecRace: as Spec, one more call
MaxReadCalls == 4    \* SpecRead: one search_yt caller, two next_yt_result callers
MaxReadLines == 2
MaxFiles     == 3    \* SpecLib: entries of the music directory
MaxDlCalls   == 3    \* SpecDl: overlapping download calls
MaxSeqCalls  == 4    \* SpecDlSeq: download calls one at a time
MaxExports   == 2    \* SpecCache: export_cache calls
MaxMinutes   == 1    \* SpecCache: minutes the clock advances

MaxProcs == IF MaxCalls >= MaxRaceCalls /\ MaxCalls >= MaxReadCalls THEN MaxCalls
            ELSE IF MaxRaceCalls >= MaxReadCalls THEN MaxRaceCalls ELSE MaxReadCalls
Procs   == 1..MaxProcs           \* a search_yt call launches at most one process
NoProc  == 0
NoTask  == "none"
SearchTasks == {"s1", "s2"}      \* concurrent search_yt callers
NextTasks   == {"n1", "n2"}      \* concurrent next_yt_result callers
ShutTasks   == {"d1"}            \* the _unload caller
Tasks       == SearchTasks \cup NextTasks \cup ShutTasks

\* kinds of line the external tool may write
Kinds == {"good", "blank", "malformed", "nofield"}

VARIABLES
  yt_process,   \* Plugin.yt_process: a process or NoProc (None)
  lockHolder,   \* task holding Plugin.yt_process_lock, or NoTask
  lockWaiters,  \* FIFO of tasks suspended in Lock.acquire()
  phase,        \* per process: "unborn", "running", "exited"
  eof,          \* per process: stdout StreamReader has been fed EOF
  buf,          \* per process: unread chunks in the stdout StreamReader
  script,       \* per process: the lines it has begun to write, each by its kind
                \* ("?" until the program first reads from the line)
  part,         \* per process: last chunk written ("none", "head", "tail")
  termCalls,    \* per process: Process.terminate() calls made on it
  killCalls,    \* per process: Process.kill() calls made on it
  pc,           \* per task: where the coroutine is suspended
  target,       \* per task: process whose stream it reads / awaits
  pending,      \* per search task: process launched, not yet assigned
  old,          \* per search/_unload task: handle found Running at the call
  shut,         \* per _unload task: history of its current (or last) call
  log,          \* outcomes of next_yt_result calls, in order of return
  nSearch,      \* search_yt calls made so far
  nCalls,       \* calls made so far
  budget,       \* the bounds of the specification: [calls, lines]
  seen,         \* per search task: the handle as it was when the call began
  stale,        \* per next_yt_result task in flight: processes of searches
                \* earlier than one already begun when the call started
  quiet,        \* an _unload has returned and no search_yt was called or in flight since
  music,        \* SpecLib: os.listdir(music_path), or "missing"
  lm,           \* SpecLib: last local_match call and its result
  dec,          \* SpecDec: an entry handed to entry_to_info and the result
  dl,           \* per download task: where it is suspended, its id, what the tool wrote
  spawned,      \* subprocesses created by download_yt_audio and single_yt_url
  lop,          \* the last library call made (or returned) and its outcome
  libCalls,     \* library calls made so far
  libBudget,    \* the bounds of the specification: [calls, overlap]
  cache,        \* SpecCache: the cache directory: exists, files (name, text)
  clock,        \* SpecCache: datetime.now(), in minutes
  rt,           \* SpecCache: the cache calls made last (export, then list)
  listed,       \* SpecCache: names returned by list_cache_backups so far
  imp           \* SpecCache: the last import_cache call and its result

sessionVars == <<yt_process, lockHolder, lockWaiters, phase, eof, buf,
                 script, part, termCalls, killCalls, pc, target, pending, old,
                 shut, log, nSearch, nCalls, quiet, budget, seen, stale>>
dlVars == <<dl, spawned, lop, libCalls, libBudget>>
cacheVars == <<cache, clock, rt, listed, imp>>
libVars == <<music, lm, dec, dlVars, cacheVars>>
vars == <<sessionVars, libVars>>

\* ------------------------------------------------------- text of the output
\* A line is a sequence of symbols; the tool writes it in chunks.
Sym(t)      == [t |-> t, key |-> "", val |-> <<>>]
Field(k, v) == [t |-> "field", key |-> k, val |-> v]
WS          == {" ", "\n"}

\* The text of line i of process p, by kind: a full yt-dlp -j entry, one
\* without "thumbnail", a line that is no JSON, a whitespace-only line.  The
\* tool writes a line in two chunks, head and tail; the tail ends with the
\* newline.
LineHead(k, p, i) ==
  CASE k = "good"      -> <<Sym("{"), Field("url", <<p, i, 1>>), Field("title", <<p, i, 2>>)>>
    [] k = "nofield"   -> <<Sym("{"), Field("url", <<p, i, 1>>), Field("title", <<p, i, 2>>)>>
    [] k = "malformed" -> <<Sym("junk")>>
    [] OTHER           -> <<Sym(" ")>>
LineTail(k, p, i) ==
  CASE k = "good"      -> <<Field("id", <<p, i, 3>>), Field("thumbnail", <<p, i, 4>>),
                            Field("duration", <<p, i, 5>>), Sym("}"), Sym("\n")>>
    [] k = "nofield"   -> <<Field("id", <<p, i, 3>>), Sym("}"), Sym("\n")>>
    [] k = "malformed" -> <<Sym("junk"), Sym("\n")>>
    [] OTHER           -> <<Sym("\n")>>
ChunkText(k, p, c) ==
  IF c.part = "head" THEN LineHead(k, p, c.line) ELSE LineTail(k, p, c.line)

Min(S) == CHOOSE x \in S : \A y \in S : x <= y
Max(S) == CHOOSE x \in S : \A y \in S : x >= y

\* bytes.strip() (line 88)
strip(x) ==
  LET keep == {i \in 1..Len(x) : x[i].t \notin WS}
  IN  IF keep = {} THEN <<>> ELSE SubSeq(x, Min(keep), Max(keep))

\* json.loads (line 93): an object, or JSONDecodeError
IsObject(x) ==
  /\ Len(x) >= 2
  /\ x[1].t = "{"
  /\ x[Len(x)].t = "}"
  /\ \A i \in 2..(Len(x) - 1) : x[i].t = "field"
json_loads(x) ==
  IF IsObject(x)
  THEN LET keys == {x[i].key : i \in 2..(Len(x) - 1)}
           last(k) == Max({i \in 2..(Len(x) - 1) : x[i].key = k})
       IN  [ok |-> TRUE, obj |-> [k \in keys |-> x[last(k)].val]]
  ELSE [ok |-> FALSE, obj |-> <<>>]

\* Plugin.entry_to_info (lines 96-103): the four fields, or KeyError
NoInfo == [url |-> <<>>, title |-> <<>>, id |-> <<>>, thumbnail |-> <<>>]
entry_to_info_whole(entry) ==
  [ok |-> {"url", "title", "id", "thumbnail"} \subseteq DOMAIN entry, info |-> entry]
entry_to_info_swallow(entry) ==
  [ok |-> TRUE,
   info |-> [f \in {"url", "title", "id", "thumbnail"} |->
               IF f \in DOMAIN entry THEN entry[f] ELSE <<>>]]
entry_to_info(entry) ==
  IF {"url", "title", "id", "thumbnail"} \subseteq DOMAIN entry
  THEN [ok |-> TRUE,
        info |-> [url |-> entry["url"], title |-> entry["title"],
                  id |-> entry["id"], thumbnail |-> entry["thumbnail"]]]
  ELSE [ok |-> FALSE, info |-> NoInfo]

\* What next_yt_result makes of the bytes readline() returned (lines 88-94)
Decode(raw) ==
  LET line == strip(raw)
  IN  IF Len(line) = 0 THEN [kind |-> "none", info |-> NoInfo]
      ELSE LET e == json_loads(line)
           IN  IF ~e.ok THEN [kind |-> "error", info |-> NoInfo]
               ELSE LET r == entry_to_info(e.obj)
                    IN  IF r.ok THEN [kind |-> "record", info |-> r.info]
                        ELSE [kind |-> "error", info |-> NoInfo]

\* ------------------------------------------------ processes and their streams
LineDone(p)   == part[p] # "head"
RECURSIVE SumLines(_)
SumLines(S)   == IF S = {} THEN 0
                 ELSE LET p == CHOOSE q \in S : TRUE
                      IN  Len(script[p]) + SumLines(S \ {p})
FreshProc     == Min({q \in Procs : phase[q] = "unborn"})

\* the chunk that ends its line (carries the newline)
EndsLine(c) == c.part = "tail"

\* the text of chunks cs of one line of process p, the line being of kind k
RECURSIVE RawText(_, _, _)
RawText(k, p, cs) ==
  IF cs = <<>> THEN <<>>
  ELSE ChunkText(k, p, Head(cs)) \o RawText(k, p, Tail(cs))

\* StreamReader.readline() (line 88): up to and including the first newline;
\* at EOF whatever is left (possibly a fragment, possibly nothing).
NewlineAt(p)       == {i \in 1..Len(buf[p]) : EndsLine(buf[p][i])}
ReadlineReady(p)   == eof[p] \/ NewlineAt(p) # {}
ReadlineAll(p)     == Len(buf[p])
ReadlineLen(p)     == IF NewlineAt(p) # {} THEN Min(NewlineAt(p)) ELSE Len(buf[p])
ReadlineChunks(p)  == SubSeq(buf[p], 1, ReadlineLen(p))
ReadlinePeek(p)    == buf[p]
ReadlineRest(p)    == SubSeq(buf[p], ReadlineLen(p) + 1, Len(buf[p]))

\* "self.yt_process is not None and self.yt_process.returncode is None"
\* (lines 40 and 65)
returncode(p) == phase[p] = "exited"
Running(h)    == h # NoProc /\ ~returncode(h)

\* Process.communicate() has returned: stdout read to EOF and wait() done
Communicated(p) == returncode(p) /\ eof[p]

\* asyncio.Lock (line 27): acquire() suspends while the lock is held;
\* release() hands the lock to the first waiter, in FIFO order.
LockedNever         == FALSE
Locked              == lockHolder # NoTask
HolderNobody        == NoTask
HolderAfterRelease  == IF lockWaiters = <<>> THEN NoTask ELSE Head(lockWaiters)
WaitersAfterRelease == IF lockWaiters = <<>> THEN <<>> ELSE Tail(lockWaiters)


\* --------------------------------------------- the music directory (SpecLib)
\* A file name is a sequence of characters; the directory is what
\* os.listdir(music_path) returns, in the order it returns it, or is missing.
Ids       == {<<"a">>, <<"a", "b">>, <<"b">>}
FileNames == {<<"a", ".", "w">>, <<"a", ".", "m">>, <<"a", "b", ".", "w">>,
              <<"b", ".", "w">>, <<"a">>}
DirEntries == [name : FileNames, isfile : BOOLEAN]
NoDir     == [exists |-> FALSE, files |-> <<>>]
NoResult  == [kind |-> "none", path |-> <<>>]
NoCall    == [called |-> FALSE, id |-> <<>>, dir |-> NoDir, result |-> NoResult]

\* str.startswith (line 109)
startswith(name, prefix) ==
  Len(name) >= Len(prefix) /\ SubSeq(name, 1, Len(prefix)) = prefix

\* the entries local_match accepts for id (line 109)
Matches(dir, id) ==
  {i \in 1..Len(dir.files) :
     dir.files[i].isfile /\ startswith(dir.files[i].name, id \o <<".">>)}

local_match_blind(dir, id) == NoResult
\* Plugin.local_match (lines 105-115): the first match in listing order, None
\* when there is none or the directory is missing (FileNotFoundError caught)
local_match(dir, id) ==
  IF ~dir.exists THEN NoResult
  ELSE IF Matches(dir, id) = {} THEN NoResult
  ELSE [kind |-> "path", path |-> dir.files[Min(Matches(dir, id))].name]

\* -------------------------------------------------------------- initial state
NoShut == [seq |-> 0, term |-> 0, kill |-> 0, timedOut |-> FALSE, outcome |-> "none"]

InitSession ==
  /\ yt_process = NoProc                      \* line 26
  /\ lockHolder = NoTask                      \* line 27
  /\ lockWaiters = <<>>
  /\ phase = [p \in Procs |-> "unborn"]
  /\ eof = [p \in Procs |-> FALSE]
  /\ buf = [p \in Procs |-> <<>>]
  /\ script = [p \in Procs |-> <<>>]
  /\ part = [p \in Procs |-> "none"]
  /\ termCalls = [p \in Procs |-> 0]
  /\ killCalls = [p \in Procs |-> 0]
  /\ pc = [t \in Tasks |-> "idle"]
  /\ target = [t \in Tasks |-> NoProc]
  /\ pending = [t \in SearchTasks |-> NoProc]
  /\ old = [t \in SearchTasks \cup ShutTasks |-> NoProc]
  /\ shut = [t \in ShutTasks |-> NoShut]
  /\ log = <<>>
  /\ nSearch = 0 /\ nCalls = 0
  /\ quiet = FALSE
  /\ seen = [t \in SearchTasks |-> NoProc]
  /\ stale = [t \in NextTasks |-> {}]

\* ------------------------------------------------- the external process (yt-dlp)
\* It starts a new line: the head chunk reaches the StreamReader.  What the
\* line says is fixed when the program first reads from it (ReadLine).
ProcBeginLine(p) ==
  /\ phase[p] = "running" /\ ~eof[p] /\ LineDone(p)
  /\ SumLines(Procs) < budget.lines
  /\ script' = [script EXCEPT ![p] = Append(@, "?")]
  /\ part' = [part EXCEPT ![p] = "head"]
  /\ buf' = [buf EXCEPT ![p] = Append(@, [line |-> Len(script[p]) + 1, part |-> "head"])]
  /\ UNCHANGED <<yt_process, lockHolder, lockWaiters, phase, eof,
                 termCalls, killCalls, pc, target, pending, old, shut, log,
                 nSearch, nCalls, quiet, budget, libVars, seen, stale>>

\* It writes the rest of the line it has begun, newline included.
ProcContinueLine(p) ==
  /\ phase[p] = "running" /\ ~eof[p] /\ ~LineDone(p)
  /\ part' = [part EXCEPT ![p] = "tail"]
  /\ buf' = [buf EXCEPT ![p] = Append(@, [line |-> Len(script[p]), part |-> "tail"])]
  /\ UNCHANGED <<yt_process, lockHolder, lockWaiters, phase, eof, script,
                 termCalls, killCalls, pc, target, pending, old, shut, log,
                 nSearch, nCalls, quiet, budget, libVars, seen, stale>>

\* It exits (at the end of its work, on SIGTERM or SIGKILL) and the event
\* loop's child watcher records it: Process.returncode is set.  A process may
\* ignore SIGTERM, so nothing forces this step.
ProcExit(p) ==
  /\ phase[p] = "running"
  /\ phase' = [phase EXCEPT ![p] = "exited"]
  /\ UNCHANGED <<yt_process, lockHolder, lockWaiters, eof, buf, script,
                 part, termCalls, killCalls, pc, target, pending, old, shut, log,
                 nSearch, nCalls, quiet, budget, libVars, seen, stale>>

\* The event loop's pipe callback feeds EOF to the StreamReader: the process
\* closed its output or has exited.
FeedEof(p) ==
  /\ phase[p] # "unborn" /\ ~eof[p]
  /\ eof' = [eof EXCEPT ![p] = TRUE]
  /\ UNCHANGED <<yt_process, lockHolder, lockWaiters, phase, buf, script,
                 part, termCalls, killCalls, pc, target, pending, old, shut, log,
                 nSearch, nCalls, quiet, budget, libVars, seen, stale>>

\* Callers are anonymous: a new call runs in the first idle task of its kind.
Rank == [s1 |-> 1, s2 |-> 2, n1 |-> 1, n2 |-> 2, d1 |-> 1]
FirstIdle(t, S) ==
  /\ pc[t] = "idle"
  /\ \A u \in S : pc[u] = "idle" => Rank[t] <= Rank[u]
CanCall(t, S) == FirstIdle(t, S) /\ nCalls < budget.calls

\* ------------------------------------------------------ search_yt (lines 59-81)
\* The call up to its first suspension.  With a Running handle: terminate()
\* (line 67), then the lock (line 68), taken at once when free, and
\* communicate() on the handle (line 69).  Otherwise create_subprocess_exec
\* (line 71): the process is forked at once, the coroutine suspends until the
\* transport is ready and only then assigns self.yt_process.
SearchCall(s) ==
  /\ CanCall(s, SearchTasks)
  /\ nSearch' = nSearch + 1
  /\ nCalls' = nCalls + 1
  /\ quiet' = FALSE
  /\ seen' = [seen EXCEPT ![s] = yt_process]
  /\ IF Running(yt_process)
     THEN /\ termCalls' = [termCalls EXCEPT ![yt_process] = @ + 1]
          /\ old' = [old EXCEPT ![s] = yt_process]
          /\ IF Locked
             THEN /\ lockWaiters' = Append(lockWaiters, s)
                  /\ pc' = [pc EXCEPT ![s] = "lock"]
                  /\ UNCHANGED <<lockHolder, target>>
             ELSE /\ lockHolder' = s
                  /\ target' = [target EXCEPT ![s] = yt_process]
                  /\ pc' = [pc EXCEPT ![s] = "communicate"]
                  /\ UNCHANGED lockWaiters
          /\ UNCHANGED <<phase, pending>>
     ELSE /\ phase' = [phase EXCEPT ![FreshProc] = "running"]
          /\ pending' = [pending EXCEPT ![s] = FreshProc]
          /\ old' = [old EXCEPT ![s] = NoProc]
          /\ pc' = [pc EXCEPT ![s] = "create"]
          /\ UNCHANGED <<termCalls, lockHolder, lockWaiters, target>>
  /\ UNCHANGED <<yt_process, eof, buf, script, part, killCalls, shut,
                 log, budget, libVars, stale>>

\* The lock is granted: communicate() is called on self.yt_process as it is
\* now (line 69 reads the attribute again).
SearchLocked(s) ==
  /\ pc[s] = "lock" /\ lockHolder = s
  /\ target' = [target EXCEPT ![s] = yt_process]
  /\ pc' = [pc EXCEPT ![s] = "communicate"]
  /\ UNCHANGED <<yt_process, lockHolder, lockWaiters, phase, eof, buf,
                 script, part, termCalls, killCalls, pending, old, shut, log,
                 nSearch, nCalls, quiet, budget, libVars, seen, stale>>

\* communicate() returns (no timeout): output drained, exit awaited.  The lock
\* is released and the new process is forked (line 71).
SearchCommunicated(s) ==
  /\ pc[s] = "communicate" /\ Communicated(target[s])
  /\ buf' = [buf EXCEPT ![target[s]] = <<>>]
  /\ lockHolder' = HolderAfterRelease
  /\ lockWaiters' = WaitersAfterRelease
  /\ phase' = [phase EXCEPT ![FreshProc] = "running"]
  /\ pending' = [pending EXCEPT ![s] = FreshProc]
  /\ target' = [target EXCEPT ![s] = NoProc]
  /\ pc' = [pc EXCEPT ![s] = "create"]
  /\ UNCHANGED <<yt_process, eof, script, part, termCalls, killCalls,
                 old, shut, log, nSearch, nCalls, quiet, budget, libVars, seen, stale>>

\* create_subprocess_exec returns: self.yt_process = <the new process> (line 71)
SearchCreated(s) ==
  /\ pc[s] = "create"
  /\ yt_process' = pending[s]
  /\ pending' = [pending EXCEPT ![s] = NoProc]
  /\ old' = [old EXCEPT ![s] = NoProc]
  /\ seen' = [seen EXCEPT ![s] = NoProc]
  /\ pc' = [pc EXCEPT ![s] = "idle"]
  /\ UNCHANGED <<lockHolder, lockWaiters, phase, eof, buf, script, part,
                 termCalls, killCalls, target, shut, log,
                 nSearch, nCalls, quiet, budget, libVars, stale>>

\* ------------------------------------------------- next_yt_result (lines 83-94)
\* a returned call: who returned, what, read from which process and chunks,
\* after how many search_yt calls
StaleFor(n) ==
  IF pc[n] = "idle"
  THEN {seen[s] : s \in {t \in SearchTasks : pc[t] # "idle"}} \ {NoProc}
  ELSE stale[n]
Entry(n, out, p, cs) ==
  [who |-> n, kind |-> out.kind, info |-> out.info, proc |-> p, src |-> cs,
   epoch |-> nSearch, stale |-> p \in StaleFor(n)]

\* readline() returns on process p: the line is consumed and decoded, the
\* lock released ("async with" releases it on return and on an exception).
\* The chunks returned belong to one line; its kind is fixed here.
ReadLine(n, p) ==
  LET cs == ReadlineChunks(p)
  IN  /\ buf' = [buf EXCEPT ![p] = ReadlineRest(p)]
      /\ IF cs = <<>>
         THEN /\ log' = Append(log, Entry(n, Decode(<<>>), p, cs))
              /\ UNCHANGED script
         ELSE \E k \in Kinds :
                /\ script[p][cs[1].line] \in {"?", k}
                /\ script' = [script EXCEPT ![p][cs[1].line] = k]
                /\ log' = Append(log, Entry(n, Decode(RawText(k, p, cs)), p, cs))
      /\ lockHolder' = HolderAfterRelease
      /\ lockWaiters' = WaitersAfterRelease
      /\ pc' = [pc EXCEPT ![n] = "idle"]
      /\ target' = [target EXCEPT ![n] = NoProc]
      /\ stale' = [stale EXCEPT ![n] = {}]

\* The body under the lock (lines 85-94): no handle -> None; a line (or EOF)
\* already buffered -> readline() returns without suspending; otherwise the
\* coroutine suspends in readline(), bound to this process's stream.
NextBody(n) ==
  IF yt_process = NoProc
  THEN /\ log' = Append(log, Entry(n, [kind |-> "none", info |-> NoInfo], NoProc, <<>>))
       /\ lockHolder' = HolderAfterRelease
       /\ lockWaiters' = WaitersAfterRelease
       /\ pc' = [pc EXCEPT ![n] = "idle"]
       /\ stale' = [stale EXCEPT ![n] = {}]
       /\ UNCHANGED <<buf, target, script>>
  ELSE IF ReadlineReady(yt_process)
  THEN ReadLine(n, yt_process)
  ELSE /\ lockHolder' = n
       /\ target' = [target EXCEPT ![n] = yt_process]
       /\ pc' = [pc EXCEPT ![n] = "read"]
       /\ stale' = [stale EXCEPT ![n] = StaleFor(n)]
       /\ UNCHANGED <<buf, log, lockWaiters, script>>

NextCall(n) ==
  /\ CanCall(n, NextTasks)
  /\ nCalls' = nCalls + 1
  /\ IF Locked
     THEN /\ lockWaiters' = Append(lockWaiters, n)
          /\ pc' = [pc EXCEPT ![n] = "lock"]
          /\ stale' = [stale EXCEPT ![n] = StaleFor(n)]
          /\ UNCHANGED <<lockHolder, buf, log, target, script>>
     ELSE NextBody(n)
  /\ UNCHANGED <<yt_process, phase, eof, part, termCalls,
                 killCalls, pending, old, shut, nSearch, quiet, budget, libVars, seen>>

NextLocked(n) ==
  /\ pc[n] = "lock" /\ lockHolder = n
  /\ NextBody(n)
  /\ UNCHANGED <<yt_process, phase, eof, part, termCalls,
                 killCalls, pending, old, shut, nSearch, nCalls, quiet, budget, libVars, seen>>

NextRead(n) ==
  /\ pc[n] = "read" /\ ReadlineReady(target[n])
  /\ ReadLine(n, target[n])
  /\ UNCHANGED <<yt_process, phase, eof, part, termCalls,
                 killCalls, pending, old, shut, nSearch, nCalls, quiet, budget, libVars, seen>>

\* ------------------------------------------------------- _unload (lines 39-48)
NoSearchActive == \A s \in SearchTasks : pc[s] = "idle"

\* The call up to its first suspension: no Running handle -> it returns at
\* once (line 40); otherwise terminate() (line 42) and the lock (line 43).
ShutdownCall(d) ==
  /\ CanCall(d, ShutTasks)
  /\ nCalls' = nCalls + 1
  /\ IF Running(yt_process)
     THEN /\ termCalls' = [termCalls EXCEPT ![yt_process] = @ + 1]
          /\ old' = [old EXCEPT ![d] = yt_process]
          /\ shut' = [shut EXCEPT ![d] = [NoShut EXCEPT !.seq = shut[d].seq + 1, !.term = 1]]
          /\ IF Locked
             THEN /\ lockWaiters' = Append(lockWaiters, d)
                  /\ pc' = [pc EXCEPT ![d] = "lock"]
                  /\ UNCHANGED <<lockHolder, target>>
             ELSE /\ lockHolder' = d
                  /\ target' = [target EXCEPT ![d] = yt_process]
                  /\ pc' = [pc EXCEPT ![d] = "communicate"]
                  /\ UNCHANGED lockWaiters
          /\ UNCHANGED quiet
     ELSE /\ old' = [old EXCEPT ![d] = NoProc]
          /\ shut' = [shut EXCEPT ![d] = [NoShut EXCEPT !.seq = shut[d].seq + 1,
                                                    !.outcome = "noop"]]
          /\ quiet' = NoSearchActive
          /\ UNCHANGED <<termCalls, lockHolder, lockWaiters, pc, target>>
  /\ UNCHANGED <<yt_process, phase, eof, buf, script, part, killCalls,
                 pending, log, nSearch, budget, libVars, seen, stale>>

\* The lock is granted: wait_for(self.yt_process.communicate(), 5) starts on
\* self.yt_process as it is now (line 45).
ShutdownLocked(d) ==
  /\ pc[d] = "lock" /\ lockHolder = d
  /\ target' = [target EXCEPT ![d] = yt_process]
  /\ pc' = [pc EXCEPT ![d] = "communicate"]
  /\ UNCHANGED <<yt_process, lockHolder, lockWaiters, phase, eof, buf,
                 script, part, termCalls, killCalls, pending, old, shut, log,
                 nSearch, nCalls, quiet, budget, libVars, seen, stale>>

\* kill() calls that end the wait (lines 44-48): one in "except TimeoutError",
\* none when communicate() returned
KillsAlways(timedOut)    == 1
KillsAfterWait(timedOut) == IF timedOut THEN 1 ELSE 0

\* communicate() returns within the timeout: no kill, the lock is released.
ShutdownCommunicated(d) ==
  /\ pc[d] = "communicate" /\ Communicated(target[d])
  /\ buf' = [buf EXCEPT ![target[d]] = <<>>]
  /\ lockHolder' = HolderAfterRelease
  /\ lockWaiters' = WaitersAfterRelease
  /\ pc' = [pc EXCEPT ![d] = "idle"]
  /\ killCalls' = [killCalls EXCEPT ![yt_process] = @ + KillsAfterWait(FALSE)]
  /\ shut' = [shut EXCEPT ![d].kill = @ + KillsAfterWait(FALSE),
                          ![d].outcome = "graceful"]
  /\ quiet' = NoSearchActive
  /\ UNCHANGED <<yt_process, phase, eof, script, part, termCalls,
                 target, pending, old, log, nSearch, nCalls, budget, libVars, seen, stale>>

\* The 5-second timer fires while communicate() is pending: wait_for cancels
\* it (what it had read is dropped) and waits for the cancellation.
ShutdownTimeout(d) ==
  /\ pc[d] = "communicate" /\ ~Communicated(target[d])
  /\ buf' = [buf EXCEPT ![target[d]] = <<>>]
  /\ pc' = [pc EXCEPT ![d] = "timedout"]
  /\ shut' = [shut EXCEPT ![d].timedOut = TRUE]
  /\ UNCHANGED <<yt_process, lockHolder, lockWaiters, phase, eof, script,
                 part, termCalls, killCalls, target, pending, old, log,
                 nSearch, nCalls, quiet, budget, libVars, seen, stale>>

\* except TimeoutError: self.yt_process.kill() (line 48), on self.yt_process
\* as it is now; then the lock is released.  kill() on a transport that has
\* already finished raises ProcessLookupError out of _unload.
ShutdownKill(d) ==
  /\ pc[d] = "timedout"
  /\ killCalls' = [killCalls EXCEPT ![yt_process] = @ + KillsAfterWait(TRUE)]
  /\ shut' = [shut EXCEPT ![d].kill = @ + KillsAfterWait(TRUE),
                          ![d].outcome = IF Communicated(yt_process)
                                         THEN "ProcessLookupError" ELSE "killed"]
  /\ lockHolder' = HolderAfterRelease
  /\ lockWaiters' = WaitersAfterRelease
  /\ pc' = [pc EXCEPT ![d] = "idle"]
  /\ quiet' = NoSearchActive
  /\ UNCHANGED <<yt_process, phase, eof, buf, script, part, termCalls,
                 target, pending, old, log, nSearch, nCalls, budget, libVars, seen, stale>>

\* ---------------------------------------------------------- the specification
\* ------------------------------------------------ downloads (lines 117-184)
M4A      == <<"m", "4", "a">>
WEBM     == <<"w", "e", "b", "m">>
OPUS     == <<"o", "p", "u", "s">>
Exts     == {M4A, WEBM, OPUS}       \* what yt-dlp -f bestaudio -o "%(id)s.%(ext)s" may write
DlIds    == {<<"a">>, <<"a", "b">>}
DlTasks  == {"g1", "g2"}            \* concurrent download_yt_audio callers
UrlTasks == {"u1"}                  \* the download_url caller
LibTasks == DlTasks \cup UrlTasks
NoJob    == [pc |-> "idle", id |-> <<>>, ext |-> <<>>]
NoOp     == [op |-> "none", id |-> <<>>, out |-> "none"]

FileName(id, ext) == id \o <<".">> \o ext
Names(dir) == {dir.files[i].name : i \in 1..Len(dir.files)}
\* a file is created (or an existing one of that name rewritten)
AddFile(dir, name) ==
  [exists |-> TRUE,
   files |-> IF name \in Names(dir) THEN dir.files
             ELSE Append(dir.files, [name |-> name, isfile |-> TRUE])]
RemoveName(files, name) ==
  LET keep(e) == e.name # name IN SelectSeq(files, keep)
\* os.rename (line 162): src takes the name dst, replacing a file of that name
rename(dir, src, dst) ==
  LET rest == RemoveName(dir.files, dst)
  IN  [dir EXCEPT !.files =
         [i \in 1..Len(rest) |->
            IF rest[i].name = src THEN [rest[i] EXCEPT !.name = dst] ELSE rest[i]]]
\* the loop of clear_downloads (lines 178-182): every regular file is removed
WithoutFiles(dir) ==
  LET keep(e) == ~e.isfile IN [dir EXCEPT !.files = SelectSeq(dir.files, keep)]

InitDlIdle ==
  /\ dl = [t \in LibTasks |-> NoJob]
  /\ spawned = 0 /\ lop = NoOp /\ libCalls = 0

LibRank == [t \in LibTasks |-> CASE t = "g1" -> 1 [] t = "g2" -> 2 [] OTHER -> 1]
CanLibCall(t, S) ==
  /\ dl[t].pc = "idle"
  /\ \A u \in S : LibRank[u] < LibRank[t] => dl[u].pc # "idle"
  /\ libCalls < libBudget.calls
  /\ libBudget.overlap \/ \A u \in LibTasks : dl[u].pc = "idle"

\* download_yt_audio up to its first suspension (lines 141-148): a local match
\* -> return; otherwise the tool is started.
DownloadCall(t, id) ==
  /\ CanLibCall(t, DlTasks)
  /\ libCalls' = libCalls + 1
  /\ IF local_match(music, id).kind = "path"
     THEN /\ lop' = [op |-> "download", id |-> id, out |-> "local"]
          /\ UNCHANGED <<dl, spawned>>
     ELSE /\ dl' = [dl EXCEPT ![t] = [pc |-> "tool", id |-> id, ext |-> <<>>]]
          /\ spawned' = spawned + 1
          /\ lop' = [op |-> "download", id |-> id, out |-> "spawned"]
  /\ UNCHANGED <<sessionVars, music, lm, dec, libBudget, cacheVars>>

\* the tool writes its one file, <id>.<ext>, into the music directory (-P)
ToolWrites(t, ext) ==
  /\ dl[t].pc = "tool"
  /\ music' = AddFile(music, FileName(dl[t].id, ext))
  /\ dl' = [dl EXCEPT ![t].pc = "written", ![t].ext = ext]
  /\ UNCHANGED <<sessionVars, lm, dec, spawned, lop, libCalls, libBudget, cacheVars>>

\* communicate() returns (line 156); <id>.m4a, if there, is renamed (158-162)
DownloadReturn(t) ==
  /\ dl[t].pc = "written"
  /\ IF FileName(dl[t].id, M4A) \in Names(music)
     THEN /\ music' = rename(music, FileName(dl[t].id, M4A), FileName(dl[t].id, WEBM))
          /\ lop' = [op |-> "download", id |-> dl[t].id, out |-> "renamed"]
     ELSE /\ music' = music
          /\ lop' = [op |-> "download", id |-> dl[t].id, out |-> "kept"]
  /\ dl' = [dl EXCEPT ![t] = NoJob]
  /\ UNCHANGED <<sessionVars, lm, dec, spawned, libCalls, libBudget, cacheVars>>

\* download_url up to session.get (lines 164-167)
DownloadUrlCall(u, id) ==
  /\ CanLibCall(u, UrlTasks)
  /\ libCalls' = libCalls + 1
  /\ dl' = [dl EXCEPT ![u] = [pc |-> "get", id |-> id, ext |-> <<>>]]
  /\ lop' = [op |-> "download_url", id |-> id, out |-> "get"]
  /\ UNCHANGED <<sessionVars, music, lm, dec, spawned, libBudget, cacheVars>>

\* the response is good: <id>.webm is opened for writing and filled (lines
\* 169-172); open() raises FileNotFoundError when the directory is missing
DownloadUrlWrites(u) ==
  /\ dl[u].pc = "get"
  /\ IF music.exists
     THEN /\ music' = AddFile(music, FileName(dl[u].id, WEBM))
          /\ lop' = [op |-> "download_url", id |-> dl[u].id, out |-> "written"]
     ELSE /\ music' = music
          /\ lop' = [op |-> "download_url", id |-> dl[u].id, out |-> "FileNotFoundError"]
  /\ dl' = [dl EXCEPT ![u] = NoJob]
  /\ UNCHANGED <<sessionVars, lm, dec, spawned, libCalls, libBudget, cacheVars>>

\* session.get or raise_for_status raises (lines 167-168)
DownloadUrlFails(u) ==
  /\ dl[u].pc = "get"
  /\ lop' = [op |-> "download_url", id |-> dl[u].id, out |-> "ClientError"]
  /\ dl' = [dl EXCEPT ![u] = NoJob]
  /\ UNCHANGED <<sessionVars, music, lm, dec, spawned, libCalls, libBudget, cacheVars>>

\* clear_downloads (lines 175-184): no await inside
ClearDownloads ==
  /\ libCalls < libBudget.calls
  /\ libBudget.overlap \/ \A u \in LibTasks : dl[u].pc = "idle"
  /\ libCalls' = libCalls + 1
  /\ music' = WithoutFiles(music)
  /\ lop' = [op |-> "clear_downloads", id |-> <<>>, out |-> "done"]
  /\ UNCHANGED <<sessionVars, lm, dec, dl, spawned, libBudget, cacheVars>>

\* single_yt_url (lines 117-139): a local match is served from the file;
\* otherwise yt-dlp -j is run for the URL.  The directory is not written.
SingleYtUrl(id) ==
  /\ libCalls < libBudget.calls
  /\ libBudget.overlap \/ \A u \in LibTasks : dl[u].pc = "idle"
  /\ libCalls' = libCalls + 1
  /\ IF local_match(music, id).kind = "path"
     THEN /\ spawned' = spawned
          /\ lop' = [op |-> "single_yt_url", id |-> id, out |-> "local"]
     ELSE /\ spawned' = spawned + 1
          /\ lop' = [op |-> "single_yt_url", id |-> id, out |-> "spawned"]
  /\ UNCHANGED <<sessionVars, music, lm, dec, dl, libBudget, cacheVars>>

\* -------------------------------------------- cache backups (lines 186-210)
\* A snapshot is a JSON object: a set of <<key, value>> pairs, one per key.
Keys      == <<"a", "b">>
Snapshots ==
  {S \in SUBSET ({Keys[i] : i \in 1..Len(Keys)} \X {1, 2}) :
     \A x, y \in S : x[1] = y[1] => x = y}
ToStr(v)  == IF v = 1 THEN "1" ELSE "2"
ToNum(d)  == IF d = "1" THEN 1 ELSE 2

\* json.dump (line 191): the object as text
RECURSIVE DumpItems(_, _)
DumpItems(S, i) ==
  IF i > Len(Keys) THEN <<>>
  ELSE LET vs == {x \in S : x[1] = Keys[i]}
       IN  (IF vs = {} THEN <<>>
            ELSE LET x == CHOOSE y \in vs : TRUE IN <<x[1], ToStr(x[2])>>)
           \o DumpItems(S, i + 1)
json_dump(S) == <<"{">> \o DumpItems(S, 1) \o <<"}">>
\* json.load (line 210): the text as an object
json_load(text) ==
  {<<text[2 * i], ToNum(text[2 * i + 1])>> : i \in 1..((Len(text) - 2) \div 2)}

Digit(d) == <<"0", "1", "2", "3", "4", "5", "6", "7", "8", "9">>[d + 1]
\* strftime('%Y-%m-%d %H:%M') of the clock, and the file name (line 188)
Digits(n)  == <<Digit(n \div 10), Digit(n % 10)>>
Stamp(now) == <<"2026-11-05", " ">> \o Digits(now \div 60) \o <<":">> \o Digits(now % 60)
BackupFile(now) == <<"backup-">> \o Stamp(now) \o <<".", "json">>

\* file.rsplit(".", 1)[0] (line 198)
Dots(name) == {i \in 1..Len(name) : name[i] = "."}
rsplit_whole(name) == name
rsplit_stem(name) ==
  IF Dots(name) = {} THEN name ELSE SubSeq(name, 1, Max(Dots(name)) - 1)
\* f"{name}.json" (line 207)
ImportPath(name) == name \o <<".", "json">>

CacheNames == {f.name : f \in cache.files}
NoCache  == [exists |-> FALSE, files |-> {}]
NoTrip   == [stage |-> "none", snap |-> {}, name |-> <<>>, exports |-> 0]
NoImport == [kind |-> "none", value |-> {}, name |-> <<>>, trip |-> NoTrip]
InitCacheIdle ==
  /\ cache = NoCache /\ clock = 0 /\ rt = NoTrip /\ listed = {} /\ imp = NoImport

\* export_cache (lines 186-192): makedirs, then the file of this minute is
\* written (an earlier file of the same name is replaced)
ExportCache(S) ==
  /\ rt.exports < MaxExports
  /\ cache' = [exists |-> TRUE,
               files |-> {f \in cache.files : f.name # BackupFile(clock)}
                         \cup {[name |-> BackupFile(clock), text |-> json_dump(S)]}]
  /\ rt' = [stage |-> "exported", snap |-> S, name |-> BackupFile(clock),
            exports |-> rt.exports + 1]
  /\ UNCHANGED <<sessionVars, music, lm, dec, dlVars, clock, listed, imp>>

\* list_cache_backups (lines 194-204)
ListCacheBackups ==
  /\ listed' = listed \cup {rsplit_stem(n) : n \in CacheNames}
  /\ rt' = [rt EXCEPT !.stage = IF rt.stage = "none" THEN "none" ELSE "listed"]
  /\ UNCHANGED <<sessionVars, music, lm, dec, dlVars, cache, clock, imp>>

\* import_cache(name) (lines 206-210), for a name the frontend was given;
\* open() raises FileNotFoundError when there is no such file
ImportCache(name) ==
  /\ name \in listed
  /\ imp' = IF ImportPath(name) \in CacheNames
            THEN [kind |-> "value",
                  value |-> json_load((CHOOSE f \in cache.files :
                                          f.name = ImportPath(name)).text),
                  name |-> name, trip |-> rt]
            ELSE [kind |-> "FileNotFoundError", value |-> {}, name |-> name, trip |-> rt]
  /\ rt' = [rt EXCEPT !.stage = "none"]
  /\ UNCHANGED <<sessionVars, music, lm, dec, dlVars, cache, clock, listed>>

\* clear_cache (lines 212-221)
ClearCache ==
  /\ cache.files # {}
  /\ cache' = [cache EXCEPT !.files = {}]
  /\ rt' = [rt EXCEPT !.stage = "none"]
  /\ UNCHANGED <<sessionVars, music, lm, dec, dlVars, clock, listed, imp>>

\* a minute passes
Tick ==
  /\ clock < MaxMinutes
  /\ clock' = clock + 1
  /\ UNCHANGED <<sessionVars, music, lm, dec, dlVars, cache, rt, listed, imp>>

NoDec == [called |-> FALSE, entry |-> <<>>, result |-> [ok |-> FALSE, info |-> NoInfo]]
InitLibIdle ==
  /\ music = NoDir /\ lm = NoCall /\ dec = NoDec
  /\ InitDlIdle /\ libBudget = [calls |-> 0, overlap |-> FALSE]
  /\ InitCacheIdle

Init == InitSession /\ InitLibIdle /\ budget = [calls |-> MaxCalls, lines |-> MaxLines]

Next ==
  \/ \E p \in Procs : ProcBeginLine(p)
  \/ \E p \in Procs : ProcContinueLine(p)
  \/ \E p \in Procs : ProcExit(p)
  \/ \E p \in Procs : FeedEof(p)
  \/ \E s \in SearchTasks : SearchCall(s)
  \/ \E s \in SearchTasks : SearchLocked(s)
  \/ \E s \in SearchTasks : SearchCommunicated(s)
  \/ \E s \in SearchTasks : SearchCreated(s)
  \/ \E n \in NextTasks : NextCall(n)
  \/ \E n \in NextTasks : NextLocked(n)
  \/ \E n \in NextTasks : NextRead(n)
  \/ \E d \in ShutTasks : ShutdownCall(d)
  \/ \E d \in ShutTasks : ShutdownLocked(d)
  \/ \E d \in ShutTasks : ShutdownCommunicated(d)
  \/ \E d \in ShutTasks : ShutdownTimeout(d)
  \/ \E d \in ShutTasks : ShutdownKill(d)

Spec == Init /\ [][Next]_vars

\* The event loop runs every coroutine whose await has completed, and the
\* wait_for timer fires; the external process owes nothing (it may never
\* write, close its output or exit).
Fairness ==
  /\ \A t \in SearchTasks :
       WF_vars(SearchLocked(t)) /\ WF_vars(SearchCommunicated(t)) /\ WF_vars(SearchCreated(t))
  /\ \A t \in NextTasks : WF_vars(NextLocked(t)) /\ WF_vars(NextRead(t))
  /\ \A t \in ShutTasks :
       /\ WF_vars(ShutdownLocked(t)) /\ WF_vars(ShutdownCommunicated(t))
       /\ WF_vars(ShutdownTimeout(t)) /\ WF_vars(ShutdownKill(t))
SpecLive == Init /\ [][Next]_vars /\ Fairness

\* The same program with one more call: the races of three search_yt calls.
InitRace ==
  InitSession /\ InitLibIdle /\ budget = [calls |-> MaxRaceCalls, lines |-> MaxLines]
SpecRace == InitRace /\ [][Next]_vars

\* One search_yt caller and two next_yt_result callers, no _unload: reading
\* the results of a search.
InitRead ==
  InitSession /\ InitLibIdle /\ budget = [calls |-> MaxReadCalls, lines |-> MaxReadLines]
NextOfRead ==
  \/ \E p \in Procs : ProcBeginLine(p)
  \/ \E p \in Procs : ProcContinueLine(p)
  \/ \E p \in Procs : ProcExit(p)
  \/ \E p \in Procs : FeedEof(p)
  \/ SearchCall("s1")
  \/ SearchLocked("s1")
  \/ SearchCommunicated("s1")
  \/ SearchCreated("s1")
  \/ \E n \in NextTasks : NextCall(n)
  \/ \E n \in NextTasks : NextLocked(n)
  \/ \E n \in NextTasks : NextRead(n)
SpecRead == InitRead /\ [][NextOfRead]_vars

\* The music directory alone: any listing of up to MaxFiles entries.
Listings ==
  {f \in UNION {[1..n -> DirEntries] : n \in 0..MaxFiles} :
     \A i, j \in 1..Len(f) : i # j => f[i].name # f[j].name}
InitLib ==
  /\ InitSession /\ budget = [calls |-> 0, lines |-> 0]
  /\ music \in {NoDir} \cup {[exists |-> TRUE, files |-> f] : f \in Listings}
  /\ lm = NoCall /\ dec = NoDec
  /\ InitDlIdle /\ libBudget = [calls |-> 0, overlap |-> FALSE]
  /\ InitCacheIdle
LocalMatchCall(id) ==
  /\ lm' = [called |-> TRUE, id |-> id, dir |-> music, result |-> local_match(music, id)]
  /\ UNCHANGED <<sessionVars, music, dec, dlVars, cacheVars>>
NextLib == \E id \in Ids : LocalMatchCall(id)
SpecLib == InitLib /\ [][NextLib]_vars

\* entry_to_info alone: any object json.loads can hand to it, over the four
\* fields and one extra field.
FieldNames == {"url", "title", "id", "thumbnail", "duration"}
FieldVals  == {<<1>>, <<2>>}
Entries    == UNION {[K -> FieldVals] : K \in SUBSET FieldNames}
InitDec ==
  /\ InitSession /\ budget = [calls |-> 0, lines |-> 0]
  /\ music = NoDir /\ lm = NoCall
  /\ dec \in {[NoDec EXCEPT !.entry = e] : e \in Entries}
  /\ InitDlIdle /\ libBudget = [calls |-> 0, overlap |-> FALSE]
  /\ InitCacheIdle
EntryToInfoCall ==
  /\ ~dec.called
  /\ dec' = [dec EXCEPT !.called = TRUE, !.result = entry_to_info(dec.entry)]
  /\ UNCHANGED <<sessionVars, music, lm, dlVars, cacheVars>>
SpecDec == InitDec /\ [][EntryToInfoCall]_vars

\* The downloads: the directory starts missing or empty; calls overlap.
InitDl ==
  /\ InitSession /\ budget = [calls |-> 0, lines |-> 0]
  /\ music \in {NoDir, [exists |-> TRUE, files |-> <<>>]}
  /\ lm = NoCall /\ dec = NoDec
  /\ InitDlIdle /\ libBudget = [calls |-> MaxDlCalls, overlap |-> TRUE]
  /\ InitCacheIdle
NextDl ==
  \/ \E t \in DlTasks, id \in DlIds : DownloadCall(t, id)
  \/ \E t \in DlTasks, ext \in Exts : ToolWrites(t, ext)
  \/ \E t \in DlTasks : DownloadReturn(t)
  \/ \E u \in UrlTasks, id \in DlIds : DownloadUrlCall(u, id)
  \/ \E u \in UrlTasks : DownloadUrlWrites(u)
  \/ \E u \in UrlTasks : DownloadUrlFails(u)
  \/ ClearDownloads
  \/ \E id \in DlIds : SingleYtUrl(id)
SpecDl == InitDl /\ [][NextDl]_vars

\* The same, one call at a time: a call is made only when none is in flight.
InitDlSeq ==
  /\ InitSession /\ budget = [calls |-> 0, lines |-> 0]
  /\ music \in {NoDir, [exists |-> TRUE, files |-> <<>>]}
  /\ lm = NoCall /\ dec = NoDec
  /\ InitDlIdle /\ libBudget = [calls |-> MaxSeqCalls, overlap |-> FALSE]
  /\ InitCacheIdle
SpecDlSeq == InitDlSeq /\ [][NextDl]_vars

\* The cache backups: exports, listings, imports and clear_cache in any
\* order while the clock advances.
InitCache ==
  /\ InitSession /\ budget = [calls |-> 0, lines |-> 0]
  /\ music = NoDir /\ lm = NoCall /\ dec = NoDec
  /\ InitDlIdle /\ libBudget = [calls |-> 0, overlap |-> FALSE]
  /\ InitCacheIdle
NextCache ==
  \/ \E S \in Snapshots : ExportCache(S)
  \/ ListCacheBackups
  \/ \E name \in listed : ImportCache(name)
  \/ ClearCache
  \/ Tick
SpecCache == InitCache /\ [][NextCache]_vars

TypeOK ==
  /\ yt_process \in Procs \cup {NoProc}
  /\ lockHolder \in Tasks \cup {NoTask}
  /\ \A t \in Tasks : pc[t] \in {"idle", "lock", "communicate", "create", "read", "timedout"}
  /\ Len(log) <= budget.calls

\* ======================================================================
\* Claims
\* ======================================================================
Alive == {p \in Procs : phase[p] = "running"}

\* C1: in every reachable state at most one process launched by search_yt is
\* alive (launched and not yet exited), also with two search_yt calls in
\* flight at the same time.
C1_AtMostOneAlive == Cardinality(Alive) <= 1

\* C3: when search_yt found a Running handle, its new process is launched
\* only after that handle was sent terminate and has exited: while the call
\* is launching (or later in the same call) the superseded process is dead.
C3_SupersededExitedBeforeLaunch ==
  \A s \in SearchTasks :
    (pc[s] = "create" /\ old[s] # NoProc) =>
      (termCalls[old[s]] >= 1 /\ phase[old[s]] = "exited")

\* the tasks suspended in a read of some process's stdout
Readers == {t \in Tasks : pc[t] \in {"read", "communicate", "timedout"}}

\* C5: at most one task reads from a process's output at any time, and only
\* under the lock: the readline() of next_yt_result, the communicate() of
\* search_yt and the wait_for(communicate()) of _unload exclude one another.
C5_OneReaderUnderLock ==
  /\ Cardinality(Readers) <= 1
  /\ \A t \in Readers : lockHolder = t
  /\ \A t \in Tasks : pc[t] = "lock" =>
       \/ lockHolder = t
       \/ (lockHolder # NoTask /\ (\E i \in 1..Len(lockWaiters) : lockWaiters[i] = t))
\* _unload waits for the lock while a next_yt_result read is in flight
C5_Witness ==
  /\ pc["n1"] = "read" /\ lockHolder = "n1"
  /\ pc["d1"] = "lock"

IsUnloadCall == \E d \in ShutTasks : shut'[d].seq # shut[d].seq

\* C7: an _unload call made after an earlier _unload call has returned (and
\* with no search_yt called since or still in flight), or with no handle,
\* sends no terminate and no kill and changes no session state.
C7_ShutdownIdempotent ==
  [][(IsUnloadCall /\ (quiet \/ yt_process = NoProc)) =>
       /\ termCalls' = termCalls /\ killCalls' = killCalls
       /\ pc' = pc /\ lockHolder' = lockHolder /\ lockWaiters' = lockWaiters
       /\ yt_process' = yt_process]_vars

\* ---- reading the results (SpecRead)
RECURSIVE ReadsOf(_, _)
ReadsOf(p, lg) ==
  IF lg = <<>> THEN <<>>
  ELSE IF Head(lg).proc = p THEN <<Head(lg)>> \o ReadsOf(p, Tail(lg))
  ELSE ReadsOf(p, Tail(lg))
WholeLine(l) == <<[line |-> l, part |-> "head"], [line |-> l, part |-> "tail"]>>
InfoOf(p, l) ==
  [url |-> <<p, l, 1>>, title |-> <<p, l, 2>>, id |-> <<p, l, 3>>,
   thumbnail |-> <<p, l, 4>>]
Records(lg) == {i \in 1..Len(lg) : lg[i].kind = "record"}

\* the only search so far, whose process writes whole well-formed lines
OneGoodSearch ==
  /\ nSearch = 1
  /\ \A i \in 1..Len(script[1]) : script[1][i] \in {"good", "?"}
  /\ ~(eof[1] /\ part[1] = "head")

\* C2: for a search whose process writes K well-formed lines and then closes
\* its output, with no other search and no _unload, the next_yt_result calls
\* return the K records in the order written and after them only no-result.
C2_RecordsInOrderThenNone ==
  OneGoodSearch =>
    LET L == ReadsOf(1, log)
    IN  \A i \in 1..Len(L) :
          /\ L[i].kind \in {"record", "none"}
          /\ L[i].kind = "record" =>
               /\ \A j \in 1..(i - 1) : L[j].kind = "record"
               /\ L[i].src = WholeLine(i)
               /\ L[i].info = InfoOf(1, i)
          /\ L[i].kind = "none" =>
               /\ eof[1] /\ L[i].src = <<>>
               /\ Cardinality(Records(L)) = Len(script[1])
               /\ \A j \in Records(L) : j < i
\* two lines were written, both were returned in order, then no-result
C2_Witness ==
  /\ OneGoodSearch /\ Len(script[1]) = 2
  /\ Len(ReadsOf(1, log)) = 3
  /\ ReadsOf(1, log)[1].kind = "record" /\ ReadsOf(1, log)[2].kind = "record"
  /\ ReadsOf(1, log)[3].kind = "none"

\* C4: with concurrent next_yt_result callers no chunk of output is delivered
\* to more than one call, and every record returned is decoded from exactly
\* one complete line (its head and its tail, nothing else).
C4_NoLineTwiceNoFragments ==
  /\ \A i, j \in 1..Len(log) :
       (i < j /\ log[i].proc = log[j].proc) =>
         \A a \in 1..Len(log[i].src), b \in 1..Len(log[j].src) :
           log[i].src[a] # log[j].src[b]
  /\ \A i \in Records(log) :
       /\ log[i].src # <<>>
       /\ log[i].src = WholeLine(log[i].src[1].line)
       /\ log[i].info = InfoOf(log[i].proc, log[i].src[1].line)
\* two overlapping callers each got a record
C4_Witness ==
  \E i, j \in Records(log) : log[i].who = "n1" /\ log[j].who = "n2"

\* C8: within one search no-result is sticky: after a call that read from the
\* process has returned no-result, every later call returns no-result until a
\* new search_yt call is made.
C8_NoResultSticky ==
  \A i, j \in 1..Len(log) :
    (i < j /\ log[i].kind = "none" /\ log[i].proc # NoProc
           /\ log[i].epoch = log[j].epoch) => log[j].kind = "none"

\* a log entry read from a line that json.loads or entry_to_info rejects
Undecodable(e) ==
  /\ e.src # <<>>
  /\ \/ script[e.proc][e.src[1].line] \in {"malformed", "nofield"}
     \/ script[e.proc][e.src[1].line] = "good" /\ e.src # WholeLine(e.src[1].line)
ErrorReturned == Len(log') = Len(log) + 1 /\ log'[Len(log')].kind = "error"

\* C9: a line that cannot be decoded (malformed JSON, a missing field, a
\* truncated line) ends the call with an error, never a record or no-result;
\* on that step the lock is released, the handle is unchanged, and exactly the
\* chunks of the offending line leave the stream, so the next call reads on
\* from the following line.
C9_ErrorsPropagate ==
  /\ [](\A i \in 1..Len(log) : Undecodable(log[i]) <=> log[i].kind = "error")
  /\ [][ErrorReturned =>
          LET e == log'[Len(log')]
          IN  /\ lockHolder' # e.who /\ pc'[e.who] = "idle"
              /\ yt_process' = yt_process
              /\ buf[e.proc] = e.src \o buf'[e.proc]
              /\ \A q \in Procs \ {e.proc} : buf'[q] = buf[q]]_vars
\* an undecodable first line gave an error and the next call read line 2
C9_Witness ==
  /\ Len(log) >= 2
  /\ log[1].kind = "error" /\ log[1].src = WholeLine(1)
  /\ log[2].proc = log[1].proc /\ log[2].src = WholeLine(2)

\* C10: local_match(id) returns not-found with no file named id.<ext> (or no
\* directory), that file's path with exactly one, and ends in a fatal
\* integrity error with two or more.
C10_LocalMatchContract ==
  lm.called =>
    LET m == Matches(lm.dir, lm.id)
    IN  /\ (~lm.dir.exists \/ m = {}) => lm.result = NoResult
        /\ Cardinality(m) = 1 =>
             lm.result = [kind |-> "path", path |-> lm.dir.files[Min(m)].name]
        /\ Cardinality(m) >= 2 => lm.result.kind = "error"

\* ---- the decoder (SpecDec)
\* C13: entry_to_info maps an object holding url, title, id and thumbnail to
\* a record of exactly these four fields with the object's values (extra
\* fields dropped), and raises for every object lacking one of the four.
C13_DecoderExactOrError ==
  dec.called =>
    LET four == {"url", "title", "id", "thumbnail"}
    IN  IF four \subseteq DOMAIN dec.entry
        THEN /\ dec.result.ok
             /\ DOMAIN dec.result.info = four
             /\ \A f \in four : dec.result.info[f] = dec.entry[f]
        ELSE ~dec.result.ok
\* an object with the four fields and an extra one was decoded
C13_Witness ==
  /\ dec.called /\ dec.result.ok
  /\ DOMAIN dec.entry = FieldNames
  /\ dec.entry["url"] # dec.entry["title"]

\* C15: no terminate() and no kill() is called on a process whose exit has
\* been recorded (returncode set), whether by search_yt or by _unload.
C15_NoSignalAfterExit ==
  [][\A p \in Procs :
       (termCalls'[p] > termCalls[p] \/ killCalls'[p] > killCalls[p]) =>
         ~returncode(p)]_vars

\* C16: supersession never escalates: kill() is called only by _unload after
\* its timeout, and a search_yt call that found a Running handle leaves its
\* wait (to launch the new process and return) only once that handle's
\* process has exited.
C16_SupersessionNeverEscalates ==
  [][/\ \A p \in Procs :
          killCalls'[p] > killCalls[p] =>
            \E d \in ShutTasks : pc[d] = "timedout" /\ shut[d].timedOut
     /\ \A s \in SearchTasks :
          (pc[s] \in {"lock", "communicate"} /\ pc'[s] \notin {"lock", "communicate"}) =>
            (old[s] # NoProc /\ returncode(old[s]))]_vars

\* C17: the supersession window: search_yt sends terminate before it has the
\* lock, so while it waits for the lock (held by someone else) a
\* next_yt_result call holding the lock can still read from the old process
\* and return a result for it; such a result is returned by the lock holder
\* and the search is still waiting afterwards.
C17_SupersessionWindow ==
  /\ [](\A s \in SearchTasks :
          pc[s] = "lock" =>
            (old[s] # NoProc /\ termCalls[old[s]] >= 1 /\ lockHolder # NoTask))
  /\ [][\A s \in SearchTasks :
          (/\ pc[s] = "lock" /\ lockHolder # s
           /\ Len(log') = Len(log) + 1
           /\ log'[Len(log')].proc = old[s]) =>
            (lockHolder = log'[Len(log')].who /\ pc'[s] = "lock")]_vars
\* terminate was sent, the search waits for the lock, and a next_yt_result
\* call has since returned a record read from the terminated process
C17_Witness ==
  \E s \in SearchTasks :
    /\ pc[s] = "lock" /\ termCalls[old[s]] >= 1
    /\ log # <<>>
    /\ log[Len(log)].proc = old[s]
    /\ log[Len(log)].epoch = nSearch /\ nSearch >= 2
    /\ log[Len(log)].kind = "record"

\* C19: no stale results across searches: a next_yt_result call that starts
\* after a search_yt call has begun returns no record read from a process
\* that was already the handle when that search_yt call began.
C19_NoStaleRecords ==
  \A i \in 1..Len(log) : ~(log[i].kind = "record" /\ log[i].stale)

\* C20: after an _unload call has returned, by the graceful path or by the
\* timeout-then-kill path, and until search_yt is called again, a
\* next_yt_result call made then returns no-result, never a record or an error.
C20_NoResultAfterShutdown ==
  [][\A n \in NextTasks, d \in ShutTasks :
       (/\ quiet /\ pc[d] = "idle" /\ shut[d].outcome \in {"graceful", "killed"}
        /\ pc[n] = "idle"
        /\ Len(log') = Len(log) + 1 /\ log'[Len(log')].who = n) =>
         log'[Len(log')].kind = "none"]_vars

\* ---- termination of _unload (SpecLive)
\* C14: every _unload call on a Running session eventually returns, with the
\* process it found Running then exited or sent a kill, whatever the external
\* process does and also when a next_yt_result call holds the lock.
C14_ShutdownReturns ==
  \A d \in ShutTasks :
    (pc[d] \in {"lock", "communicate", "timedout"}) ~>
      (/\ pc[d] = "idle" /\ old[d] # NoProc
       /\ (returncode(old[d]) \/ killCalls[old[d]] >= 1))

\* ---- downloads (SpecDl, SpecDlSeq)
\* the files of the music directory that belong to id
FilesOf(dir, id) ==
  {i \in 1..Len(dir.files) :
     dir.files[i].isfile /\ startswith(dir.files[i].name, id \o <<".">>)}

C18_OneFilePerId ==
  \A id \in DlIds : Cardinality(FilesOf(music, id)) <= 1

\* ---- cache backups (SpecCache)
\* C12: export_cache(s), then list_cache_backups(), then import_cache(n) for
\* the name n the export created returns a value equal to s, also after
\* earlier exports, in the same clock minute or not.
C12_CacheRoundTrip ==
  (/\ imp.kind # "none" /\ imp.trip.stage = "listed"
   /\ imp.name = rsplit_stem(imp.trip.name)) =>
    (imp.kind = "value" /\ imp.value = imp.trip.snap)
\* a second export within the same minute was listed and imported back
C12_Witness ==
  /\ imp.kind = "value" /\ imp.trip.stage = "listed"
  /\ imp.trip.exports = 2 /\ clock = 0
  /\ imp.name = rsplit_stem(imp.trip.name)
  /\ Cardinality(imp.value) = 2

====
